---- MODULE Spec2Model ----
(***************************************************************************)
(* Object dictionary access of CanFestival: _setODentry (objacces.c),      *)
(* getODentry / _findODentry / _checkODentryAccess / _copyODentry          *)
(* (objacces.h) and RegisterSetODentryCallBack (objacces.c).               *)
(*                                                                         *)
(* The dictionary holds one index; the data type and the access type of    *)
(* its entry are chosen when the dictionary is built.  Every call of the   *)
(* API is one action; the variables of the "last call" group hold the      *)
(* arguments and the outputs of the most recent call.                      *)
(***************************************************************************)
EXTENDS Integers, Sequences, FiniteSets, TLC

VARIABLES
    bigEndian,      \* build option CANOPEN_BIG_ENDIAN
    pSubindex,      \* ptrTable->pSubindex[] : descriptors of the index
    pObject,        \* pSubindex[s].pObject : the storage bytes of each entry
    CallbackList,   \* the callback slot of each subindex, NoCallbacks when absent
    call,           \* arguments of the last call
    errorCode,      \* value returned by the last call
    pExpectedSize,  \* *pExpectedSize when the last call returned
    pSourceData,    \* the caller's source buffer when the last call returned
    pDestData,      \* the caller's destination buffer when the last call returned
    events,         \* collaborators invoked by the last call, in order
    stored,         \* arguments of each storeODSubIndex invocation of the last call
    touched,        \* offsets of the entry's storage region the last call accessed
    serialized,     \* the callers let one call return before the next begins
    writer,         \* the _setODentry call in progress in one execution context
    reader,         \* the getODentry call in progress in another execution context
    written         \* the values whose copy into the storage was completed

\* outputs of the last call
lastCall == <<call, errorCode, pExpectedSize, pSourceData, pDestData, events,
              stored, touched>>

\* the two execution contexts
contexts == <<serialized, writer, reader, written>>

vars == <<bigEndian, pSubindex, pObject, CallbackList, call, errorCode,
          pExpectedSize, pSourceData, pDestData, events, stored, touched,
          serialized, writer, reader, written>>

----------------------------------------------------------------------------
(* Bounds of the model *)

\* declared size of the visible_string entry
StrSize == 2

----------------------------------------------------------------------------
(* Data types and access types (objdictdef.h) *)

boolean == 1
uns16 == 6
uns32 == 7
visible_string == 9
domain == 15

RW == 0
WO == 1
RO == 2
TO_BE_SAVE == 4

NULL == "NULL"

\* the slot array the resolver gives for an index that has none (a NULL pointer)
NoCallbacks == <<>>

\* a & f for a one-bit flag f
BitAnd(a, f) == IF (a \div f) % 2 = 1 THEN f ELSE 0

\* sizeof the C object behind an entry of the given type
SizeOf(t) ==
    CASE t = boolean -> 1
      [] t = uns16 -> 2
      [] t = uns32 -> 4
      [] t = visible_string -> StrSize
      [] OTHER -> 2

DataTypes == {uns32, visible_string}
AccessTypes == {RW, WO, RO, RW + TO_BE_SAVE, WO + TO_BE_SAVE, RO + TO_BE_SAVE}

subindex(t, a) == [bAccessType |-> a, bDataType |-> t, size |-> SizeOf(t)]

\* ptrTable->bSubCount
bSubCount == Cardinality(DOMAIN pSubindex)

Indexes == {8192, 8193}
PresentIndexes == {8192}

Callbacks == {"cb1"}

\* Callback && Callback[bSubindex]
Slot(list, bSubindex) ==
    IF list # NoCallbacks THEN list[bSubindex] ELSE NULL
ValueRangeCodes == {"OD_SUCCESSFUL", "OD_VALUE_TOO_HIGH"}
CallbackCodes == {"OD_SUCCESSFUL", "SDOABT_GENERAL_ERROR"}

Zeros(n) == [i \in 1..n |-> 0]
Fill(n, b) == [i \in 1..n |-> b]

\* k non-zero bytes, all different, then zero bytes
Pattern(n, k) == [i \in 1..n |-> IF i <= k THEN i ELSE 0]

\* bytes found in memory the engine does not own: a caller's fresh destination
\* buffer, the memory that follows an entry's storage
FillBytes == {0, 170}

RECURSIVE FillsOfLen(_)
FillsOfLen(n) ==
    IF n = 0 THEN {<<>>}
    ELSE {Append(s, b) : s \in FillsOfLen(n - 1), b \in FillBytes}

----------------------------------------------------------------------------
(* d->scanIndexOD : the injected index resolver *)

scanIndexOD(wIndex) ==
    IF wIndex \in PresentIndexes THEN "OD_SUCCESSFUL" ELSE "OD_NO_SUCH_OBJECT"

----------------------------------------------------------------------------
(* _setODentry *)

\* checkAccess && bAccessType == RO
WriteNotAllowed(checkAccess, bAccessType) ==
    checkAccess /\ bAccessType = RO

\* the size test without the data type condition
SizeAcceptedShorter(given, szData, dataType) ==
    \/ given = 0
    \/ given = szData
    \/ given < szData

\* *pExpectedSize == 0 || *pExpectedSize == szData ||
\* (dataType == visible_string && *pExpectedSize < szData)
SizeAccepted(given, szData, dataType) ==
    \/ given = 0
    \/ given = szData
    \/ (dataType = visible_string /\ given < szData)

\* the condition of the re-endianize blocks, compiled in under CANOPEN_BIG_ENDIAN
Endianized(endianize, dataType) ==
    /\ bigEndian
    /\ endianize
    /\ dataType > boolean
    /\ ~(dataType >= visible_string /\ dataType <= domain)

\* one pass of the in-place inversion loop: exchange buf[i] and buf[size-1-i]
\* (C offsets; the sequence is 1-based)
Exchange(buf, i, size) ==
    [buf EXCEPT ![i + 1] = buf[size - i], ![size - i] = buf[i + 1]]

\* an inversion that exchanges the outermost pair only
InvertOuterPair(buf, i, size) ==
    IF size >= 2 THEN Exchange(buf, 0, size) ELSE buf

\* for (i = 0; i < (size >> 1); i++) exchange
RECURSIVE InvertLoop(_, _, _)
InvertLoop(buf, i, size) ==
    IF i < (size \div 2) THEN InvertLoop(Exchange(buf, i, size), i + 1, size)
    ELSE buf

\* memcpy(dst, src, n)
memcpy(dst, src, n) ==
    [i \in 1..Len(dst) |-> IF i <= n THEN src[i] ELSE dst[i]]

\* memcpy of *pExpectedSize bytes, then the '\0' of a shorter visible_string
StoreValue(obj, src, given, szData, dataType) ==
    LET copied == memcpy(obj, src, given)
    IN  IF dataType = visible_string /\ given < szData
        THEN [copied EXCEPT ![given + 1] = 0]
        ELSE copied

\* storage offsets written by StoreValue
StoreOffsets(given, szData, dataType) ==
    (0..(given - 1)) \cup
    (IF dataType = visible_string /\ given < szData THEN {given} ELSE {})

\* an entry of the log of a call: what was invoked and the code it returned
Invoked(hook, code) == [hook |-> hook, code |-> code]

\* hooks after the copy, with the code the callback returns dropped
AfterStoreIgnoringCode(slot, bAccessType, ccode) ==
    [errorCode |-> "OD_SUCCESSFUL",
     events |-> (IF slot # NULL THEN <<Invoked("Callback", ccode)>> ELSE <<>>) \o
                (IF BitAnd(bAccessType, TO_BE_SAVE) # 0
                 THEN <<Invoked("storeODSubIndex", "")>> ELSE <<>>)]

\* hooks after the copy, with the NVRAM store notified before the code of the
\* callback is examined
AfterStoreBeforeCallback(slot, bAccessType, ccode) ==
    [errorCode |-> IF slot # NULL THEN ccode ELSE "OD_SUCCESSFUL",
     events |-> (IF slot # NULL THEN <<Invoked("Callback", ccode)>> ELSE <<>>) \o
                (IF BitAnd(bAccessType, TO_BE_SAVE) # 0
                 THEN <<Invoked("storeODSubIndex", "")>> ELSE <<>>)]

\* the callback and the NVRAM store that follow the copy
AfterStore(slot, bAccessType, ccode) ==
    IF slot # NULL /\ ccode # "OD_SUCCESSFUL"
    THEN [errorCode |-> ccode, events |-> <<Invoked("Callback", ccode)>>]
    ELSE [errorCode |-> "OD_SUCCESSFUL",
          events |-> (IF slot # NULL THEN <<Invoked("Callback", ccode)>> ELSE <<>>) \o
                     (IF BitAnd(bAccessType, TO_BE_SAVE) # 0
                      THEN <<Invoked("storeODSubIndex", "")>> ELSE <<>>)]

\* the accepted branch with the copy made before the validator's answer is read
AcceptedWriteCopyFirst(obj, e, slot, src, given, vcode, ccode) ==
    IF vcode # "OD_SUCCESSFUL"
    THEN [errorCode |-> vcode, pExpectedSize |-> given,
          pObject |-> StoreValue(obj, src, given, e.size, e.bDataType),
          events |-> <<Invoked("valueRangeTest", vcode)>>, touched |-> {}]
    ELSE LET after == AfterStore(slot, e.bAccessType, ccode)
         IN  [errorCode |-> after.errorCode,
              pExpectedSize |-> e.size,
              pObject |-> StoreValue(obj, src, given, e.size, e.bDataType),
              events |-> <<Invoked("valueRangeTest", vcode), Invoked("memcpy", "")>>
                         \o after.events,
              touched |-> StoreOffsets(given, e.size, e.bDataType)]

\* the branch taken when the size is accepted: valueRangeTest, copy, hooks
AcceptedWrite(obj, e, slot, src, given, vcode, ccode) ==
    IF vcode # "OD_SUCCESSFUL"
    THEN [errorCode |-> vcode, pExpectedSize |-> given, pObject |-> obj,
          events |-> <<Invoked("valueRangeTest", vcode)>>, touched |-> {}]
    ELSE LET after == AfterStore(slot, e.bAccessType, ccode)
         IN  [errorCode |-> after.errorCode,
              pExpectedSize |-> e.size,
              pObject |-> StoreValue(obj, src, given, e.size, e.bDataType),
              events |-> <<Invoked("valueRangeTest", vcode), Invoked("memcpy", "")>>
                         \o after.events,
              touched |-> StoreOffsets(given, e.size, e.bDataType)]

\* what a write leaves unchanged when it returns before the size test
Refused(code, obj, src, given) ==
    [errorCode |-> code, pExpectedSize |-> given, pSourceData |-> src,
     pObject |-> obj, events |-> <<>>, touched |-> {}]

\* the whole of _setODentry on a found index
SetEntry(obj, e, slot, src, given, checkAccess, endianize, vcode, ccode) ==
    IF WriteNotAllowed(checkAccess, e.bAccessType)
    THEN Refused("OD_WRITE_NOT_ALLOWED", obj, src, given)
    ELSE IF SizeAccepted(given, e.size, e.bDataType)
    THEN LET src1 == IF Endianized(endianize, e.bDataType)
                     THEN InvertLoop(src, 0, e.size) ELSE src
             w == AcceptedWrite(obj, e, slot, src1, given, vcode, ccode)
         IN  [errorCode |-> w.errorCode, pExpectedSize |-> w.pExpectedSize,
              pSourceData |-> src1, pObject |-> w.pObject,
              events |-> w.events, touched |-> w.touched]
    ELSE Refused("OD_LENGTH_DATA_INVALID", obj, src, e.size)

\* the values callers write: a string of every length that fits, a scalar that
\* is zero or has bytes that all differ
Values(n, dataType) ==
    IF dataType = visible_string THEN {Pattern(n, k) : k \in 0..n}
    ELSE {Pattern(n, 0), Pattern(n, n)}

\* sizes a caller passes for an entry of declared size n
GivenSizes(n) == {0, 1, n - 1, n, n + 1} \cap Nat

\* the source buffer holds the bytes the caller announces; a caller passing 0
\* ("use the declared size") holds a value of the declared size.  One buffer
\* stands for the sizes that fit no entry of the type
SourceBuffers(given, n, dataType) ==
    IF given > n \/ (given \notin {0, n} /\ dataType # visible_string)
    THEN {Pattern(given, given)}
    ELSE Values(IF given = 0 THEN n ELSE given, dataType)

\* (*d->storeODSubIndex)(d, wIndex, bSubindex): the arguments the notifier
\* receives, once for each of its invocations in the log of the call
storeODSubIndex(log, wIndex, bSubindex) ==
    [i \in 1..Len(SelectSeq(log, LAMBDA ev : ev.hook = "storeODSubIndex")) |->
        <<wIndex, bSubindex>>]

\* the calls in which valueRangeTest is reached
Validated(e, given, checkAccess) ==
    /\ ~WriteNotAllowed(checkAccess, e.bAccessType)
    /\ SizeAccepted(given, e.size, e.bDataType)

setODentry(wIndex, bSubindex, checkAccess, endianize) ==
    LET found == scanIndexOD(wIndex) = "OD_SUCCESSFUL" /\ bSubindex < bSubCount
        n == IF found THEN pSubindex[bSubindex].size ELSE 0
    IN  \E given \in (IF found THEN GivenSizes(n) ELSE {1}) :
        \E src \in SourceBuffers(given, n, IF found THEN pSubindex[bSubindex].bDataType
                                                 ELSE boolean) :
        \E vcode \in (IF found /\ Validated(pSubindex[bSubindex], given, checkAccess)
                      THEN ValueRangeCodes ELSE {"OD_SUCCESSFUL"}) :
        \E ccode \in (IF found /\ Slot(CallbackList, bSubindex) # NULL
                         /\ Validated(pSubindex[bSubindex], given, checkAccess)
                         /\ vcode = "OD_SUCCESSFUL"
                      THEN CallbackCodes ELSE {"OD_SUCCESSFUL"}) :
        \E r \in {IF scanIndexOD(wIndex) # "OD_SUCCESSFUL"
                  THEN Refused(scanIndexOD(wIndex), <<>>, src, given)
                  ELSE IF bSubCount <= bSubindex
                  THEN Refused("OD_NO_SUCH_SUBINDEX", <<>>, src, given)
                  ELSE SetEntry(pObject[bSubindex], pSubindex[bSubindex],
                                Slot(CallbackList, bSubindex), src, given,
                                checkAccess, endianize, vcode, ccode)} :
            /\ call' = [op |-> "setODentry", wIndex |-> wIndex,
                        bSubindex |-> bSubindex, checkAccess |-> checkAccess,
                        endianize |-> endianize, size |-> given, data |-> src,
                        Callback |-> NULL]
            /\ errorCode' = r.errorCode
            /\ pExpectedSize' = r.pExpectedSize
            /\ pSourceData' = r.pSourceData
            /\ events' = r.events
            /\ stored' = storeODSubIndex(r.events, wIndex, bSubindex)
            /\ touched' = r.touched
            /\ pObject' = IF found THEN [pObject EXCEPT ![bSubindex] = r.pObject]
                          ELSE pObject
            /\ pDestData' = <<>>
            /\ UNCHANGED <<bigEndian, pSubindex, CallbackList, contexts>>

----------------------------------------------------------------------------
(* getODentry *)

\* _checkODentryAccess: TRUE when the entry is write-only
checkODentryAccess(bAccessType) ==
    BitAnd(bAccessType, WO) # 0

\* if (checkAccess) if (!_checkODentryAccess(...)) return OD_READ_NOT_ALLOWED;
ReadNotAllowed(checkAccess, bAccessType) ==
    checkAccess /\ ~checkODentryAccess(bAccessType)

\* for (i = szData; i > 0; i--) dest[j++] = pObject[i-1];
InvertCopy(dest, obj, szData) ==
    [j \in 1..Len(dest) |-> IF j <= szData THEN obj[szData + 1 - j] ELSE dest[j]]

\* while (*ptr && ptr < ptr_end) ptr++ : the offset at which the scan stops.
\* mem is the memory starting at pObject: the entry's storage and what follows it
RECURSIVE ScanString(_, _, _)
ScanString(mem, ptr, ptr_end) ==
    IF mem[ptr + 1] # 0 /\ ptr < ptr_end
    THEN ScanString(mem, ptr + 1, ptr_end)
    ELSE ptr

\* the visible_string branch with the '\0' stored in the last byte of the
\* storage when the string fills it
CopyStringClosingStorage(obj, dest, given, szData, beyond) ==
    LET mem == obj \o beyond
        ptr_end == IF given # 0 THEN given ELSE szData
        len == ScanString(mem, 0, ptr_end)
    IN  [errorCode |-> "OD_SUCCESSFUL",
         pExpectedSize |-> len,
         pDestData |-> memcpy(dest, mem, len),
         pObject |-> IF len < szData THEN [obj EXCEPT ![len + 1] = 0]
                     ELSE [obj EXCEPT ![szData] = 0],
         touched |-> 0..len]

\* the visible_string branch: copy up to the first zero byte or ptr_end, report
\* the length, store '\0' through the scan pointer when shorter than szData
CopyString(obj, dest, given, szData, beyond) ==
    LET mem == obj \o beyond
        ptr_end == IF given # 0 THEN given ELSE szData
        len == ScanString(mem, 0, ptr_end)
    IN  [errorCode |-> "OD_SUCCESSFUL",
         pExpectedSize |-> len,
         pDestData |-> memcpy(dest, mem, len),
         pObject |-> IF len < szData THEN [obj EXCEPT ![len + 1] = 0] ELSE obj,
         touched |-> 0..len]

\* _copyODentry
copyODentry(obj, e, dest, given, endianize, beyond) ==
    IF e.size > given
    THEN [errorCode |-> "SDOABT_OUT_OF_MEMORY", pExpectedSize |-> e.size,
          pDestData |-> dest, pObject |-> obj, touched |-> {}]
    ELSE IF Endianized(endianize, e.bDataType)
    THEN [errorCode |-> "OD_SUCCESSFUL", pExpectedSize |-> e.size,
          pDestData |-> InvertCopy(dest, obj, e.size), pObject |-> obj,
          touched |-> 0..(e.size - 1)]
    ELSE IF e.bDataType # visible_string
    THEN [errorCode |-> "OD_SUCCESSFUL", pExpectedSize |-> e.size,
          pDestData |-> memcpy(dest, obj, e.size), pObject |-> obj,
          touched |-> 0..(e.size - 1)]
    ELSE CopyString(obj, dest, given, e.size, beyond)

\* what a read leaves unchanged when it returns before _copyODentry
NotRead(code, obj, dest, given) ==
    [errorCode |-> code, pExpectedSize |-> given, pDestData |-> dest,
     pObject |-> obj, touched |-> {}]

\* the memory that follows the storage of an entry, as far as a scan bounded by
\* the destination capacity can reach
Beyond(e, given) ==
    IF e.bDataType = visible_string /\ given >= e.size
    THEN FillsOfLen(given - e.size + 1)
    ELSE {<<>>}

getODentry(wIndex, bSubindex, checkAccess) ==
    LET found == scanIndexOD(wIndex) = "OD_SUCCESSFUL" /\ bSubindex < bSubCount
        n == IF found THEN pSubindex[bSubindex].size ELSE 0
    IN  \E given \in (IF found THEN GivenSizes(n) ELSE {1}), b \in FillBytes :
        \E beyond \in (IF found THEN Beyond(pSubindex[bSubindex], given) ELSE {<<>>}) :
        \E dest \in {Fill(given, b)} :
        \E r \in {IF scanIndexOD(wIndex) # "OD_SUCCESSFUL"
                  THEN NotRead(scanIndexOD(wIndex), <<>>, dest, given)
                  ELSE IF bSubCount <= bSubindex
                  THEN NotRead("OD_NO_SUCH_SUBINDEX", <<>>, dest, given)
                  ELSE IF ReadNotAllowed(checkAccess, pSubindex[bSubindex].bAccessType)
                  THEN NotRead("OD_READ_NOT_ALLOWED", pObject[bSubindex], dest, given)
                  ELSE copyODentry(pObject[bSubindex], pSubindex[bSubindex],
                                   dest, given, TRUE, beyond)} :
            /\ call' = [op |-> "getODentry", wIndex |-> wIndex,
                        bSubindex |-> bSubindex, checkAccess |-> checkAccess,
                        endianize |-> TRUE, size |-> given, data |-> dest,
                        Callback |-> NULL]
            /\ errorCode' = r.errorCode
            /\ pExpectedSize' = r.pExpectedSize
            /\ pDestData' = r.pDestData
            /\ touched' = r.touched
            /\ pObject' = IF found THEN [pObject EXCEPT ![bSubindex] = r.pObject]
                          ELSE pObject
            /\ pSourceData' = <<>>
            /\ events' = <<>>
            /\ stored' = <<>>
            /\ UNCHANGED <<bigEndian, pSubindex, CallbackList, contexts>>

----------------------------------------------------------------------------
(* RegisterSetODentryCallBack *)

\* the slot array after a registration that stores without reading errorCode
RegisteredIgnoringCode(list, code, count, bSubindex, Callback) ==
    IF list # NoCallbacks /\ bSubindex < count
    THEN [list EXCEPT ![bSubindex] = Callback]
    ELSE list

\* if (errorCode == OD_SUCCESSFUL && CallbackList && bSubindex < bSubCount)
\*     CallbackList[bSubindex] = Callback;
Registered(list, code, count, bSubindex, Callback) ==
    IF code = "OD_SUCCESSFUL" /\ list # NoCallbacks /\ bSubindex < count
    THEN [list EXCEPT ![bSubindex] = Callback]
    ELSE list

RegisterSetODentryCallBack(wIndex, bSubindex, Callback) ==
    /\ CallbackList' = Registered(CallbackList, scanIndexOD(wIndex), bSubCount,
                                  bSubindex, Callback)
    /\ call' = [op |-> "RegisterSetODentryCallBack", wIndex |-> wIndex,
                bSubindex |-> bSubindex, checkAccess |-> FALSE,
                endianize |-> FALSE, size |-> 0, data |-> <<>>,
                Callback |-> Callback]
    /\ errorCode' = scanIndexOD(wIndex)
    /\ pExpectedSize' = 0
    /\ pSourceData' = <<>>
    /\ pDestData' = <<>>
    /\ events' = <<>>
    /\ stored' = <<>>
    /\ touched' = {}
    /\ UNCHANGED <<bigEndian, pSubindex, pObject, contexts>>

----------------------------------------------------------------------------

\* a context with no call in progress
Idle == [pc |-> "idle", value |-> <<>>, buffer |-> <<>>, done |-> {},
         errorCode |-> "OD_SUCCESSFUL", pExpectedSize |-> 0]

\* every call is made from one execution context, one after the other
OneContext ==
    /\ serialized = TRUE
    /\ writer = Idle
    /\ reader = Idle
    /\ written = {}

Init ==
    /\ bigEndian \in BOOLEAN
    /\ \E t \in DataTypes, a \in AccessTypes :
          pSubindex = [s \in {0} |-> subindex(t, a)]
    /\ pObject = [s \in DOMAIN pSubindex |-> Zeros(pSubindex[s].size)]
    /\ CallbackList = [s \in DOMAIN pSubindex |-> NULL]
    /\ call = [op |-> "none", wIndex |-> 0, bSubindex |-> 0, checkAccess |-> FALSE,
               endianize |-> FALSE, size |-> 0, data |-> <<>>, Callback |-> NULL]
    /\ errorCode = "OD_SUCCESSFUL"
    /\ pExpectedSize = 0
    /\ pSourceData = <<>>
    /\ pDestData = <<>>
    /\ events = <<>>
    /\ stored = <<>>
    /\ touched = {}
    /\ OneContext

Next ==
    \/ \E wIndex \in Indexes, bSubindex \in 0..bSubCount,
          checkAccess \in BOOLEAN, endianize \in BOOLEAN :
          setODentry(wIndex, bSubindex, checkAccess, endianize)
    \/ \E wIndex \in Indexes, bSubindex \in 0..bSubCount, checkAccess \in BOOLEAN :
          getODentry(wIndex, bSubindex, checkAccess)
    \/ \E wIndex \in Indexes, bSubindex \in 0..bSubCount, Callback \in Callbacks :
          RegisterSetODentryCallBack(wIndex, bSubindex, Callback)

Spec == Init /\ [][Next]_vars

----------------------------------------------------------------------------
(* The callback registry: an index of RegSubCount subindexes, with or      *)
(* without a slot array, and callers that register, replace and clear      *)
(* callbacks.                                                              *)

RegSubCount == 2

\* what callers register: two callbacks, and NULL to clear a slot
RegCallbacks == {"cb1", "cb2", NULL}

InitReg ==
    /\ bigEndian = FALSE
    /\ \E t \in DataTypes, a \in AccessTypes :
          pSubindex = [s \in 0..(RegSubCount - 1) |-> subindex(t, a)]
    /\ pObject = [s \in DOMAIN pSubindex |-> Zeros(pSubindex[s].size)]
    /\ CallbackList \in {NoCallbacks, [s \in DOMAIN pSubindex |-> NULL]}
    /\ call = [op |-> "none", wIndex |-> 0, bSubindex |-> 0, checkAccess |-> FALSE,
               endianize |-> FALSE, size |-> 0, data |-> <<>>, Callback |-> NULL]
    /\ errorCode = "OD_SUCCESSFUL"
    /\ pExpectedSize = 0
    /\ pSourceData = <<>>
    /\ pDestData = <<>>
    /\ events = <<>>
    /\ stored = <<>>
    /\ touched = {}
    /\ OneContext

NextReg ==
    \E wIndex \in Indexes, bSubindex \in 0..bSubCount, Callback \in RegCallbacks :
        RegisterSetODentryCallBack(wIndex, bSubindex, Callback)

SpecReg == InitReg /\ [][NextReg]_vars

----------------------------------------------------------------------------
(* Two execution contexts: a foreground task that writes subindex 0 with   *)
(* setODentry and an interrupt handler that reads it with getODentry.  The *)
(* engine takes no lock, so the byte copies of the two calls interleave    *)
(* byte by byte, in any order, unless the callers serialize the calls.     *)

\* the multi-byte type of the shared entry
SharedType == uns32

\* offsets of a copy of szData bytes
Offsets(szData) == 0..(szData - 1)

\* the caller's discipline: a call begins when the other context is in none
MayBegin(other) == serialized => other.pc # "copy"

\* one byte of memcpy(dst, src, n)
CopyByte(dst, src, i) == [dst EXCEPT ![i + 1] = src[i + 1]]

\* one byte of the copy to the caller: dest[j] = pObject[szData-1-j] when the
\* read endianizes, dest[j] = pObject[j] otherwise
ReadByte(dest, obj, j, szData, invert) ==
    [dest EXCEPT ![j + 1] = IF invert THEN obj[szData - j] ELSE obj[j + 1]]

\* a copy that counts as complete once it was started
CopyStarted(done, szData) == TRUE

\* the copy is complete when the statements after it run
CopyDone(done, szData) == done = Offsets(szData)

\* setODentry up to the copy: the entry is found, RW, the size is the declared
\* one; the source is endianized in place and the validator accepts it
WriteBegin(src) ==
    /\ writer.pc = "idle"
    /\ MayBegin(reader)
    /\ LET e == pSubindex[0]
           r == SetEntry(pObject[0], e, Slot(CallbackList, 0), src, e.size,
                         TRUE, TRUE, "OD_SUCCESSFUL", "OD_SUCCESSFUL")
       IN  writer' = [pc |-> "copy", value |-> src, buffer |-> r.pSourceData,
                      done |-> {}, errorCode |-> r.errorCode,
                      pExpectedSize |-> e.size]
    /\ UNCHANGED <<bigEndian, pSubindex, pObject, CallbackList, lastCall,
                   serialized, reader, written>>

\* memcpy(pObject, pSourceData, *pExpectedSize), one byte
WriteCopy(i) ==
    /\ writer.pc = "copy"
    /\ i \in Offsets(writer.pExpectedSize) \ writer.done
    /\ pObject' = [pObject EXCEPT ![0] = CopyByte(@, writer.buffer, i)]
    /\ writer' = [writer EXCEPT !.done = @ \cup {i}]
    /\ UNCHANGED <<bigEndian, pSubindex, CallbackList, lastCall,
                   serialized, reader, written>>

\* setODentry after the copy: no callback, no TO_BE_SAVE, return OD_SUCCESSFUL
WriteEnd ==
    /\ writer.pc = "copy"
    /\ CopyDone(writer.done, writer.pExpectedSize)
    /\ written' = written \cup {writer.value}
    /\ writer' = Idle
    /\ UNCHANGED <<bigEndian, pSubindex, pObject, CallbackList, lastCall,
                   serialized, reader>>

\* getODentry up to the copy: the entry is found, the capacity is the declared
\* size, the access is not checked
ReadBegin(b) ==
    /\ reader.pc \in {"idle", "returned"}
    /\ MayBegin(writer)
    /\ reader' = [pc |-> "copy", value |-> <<>>,
                  buffer |-> Fill(pSubindex[0].size, b), done |-> {},
                  errorCode |-> "OD_SUCCESSFUL",
                  pExpectedSize |-> pSubindex[0].size]
    /\ UNCHANGED <<bigEndian, pSubindex, pObject, CallbackList, lastCall,
                   serialized, writer, written>>

\* one byte of the inverting loop or of the memcpy of _copyODentry
ReadCopy(j) ==
    /\ reader.pc = "copy"
    /\ j \in Offsets(reader.pExpectedSize) \ reader.done
    /\ reader' = [reader EXCEPT
                      !.buffer = ReadByte(@, pObject[0], j, reader.pExpectedSize,
                                          Endianized(TRUE, pSubindex[0].bDataType)),
                      !.done = @ \cup {j}]
    /\ UNCHANGED <<bigEndian, pSubindex, pObject, CallbackList, lastCall,
                   serialized, writer, written>>

\* return OD_SUCCESSFUL
ReadEnd ==
    /\ reader.pc = "copy"
    /\ CopyDone(reader.done, reader.pExpectedSize)
    /\ reader' = [reader EXCEPT !.pc = "returned", !.value = reader.buffer]
    /\ UNCHANGED <<bigEndian, pSubindex, pObject, CallbackList, lastCall,
                   serialized, writer, written>>

InitShared ==
    /\ bigEndian \in BOOLEAN
    /\ pSubindex = [s \in {0} |-> subindex(SharedType, RW)]
    /\ pObject = [s \in DOMAIN pSubindex |-> Zeros(pSubindex[s].size)]
    /\ CallbackList = [s \in DOMAIN pSubindex |-> NULL]
    /\ call = [op |-> "none", wIndex |-> 0, bSubindex |-> 0, checkAccess |-> FALSE,
               endianize |-> FALSE, size |-> 0, data |-> <<>>, Callback |-> NULL]
    /\ errorCode = "OD_SUCCESSFUL"
    /\ pExpectedSize = 0
    /\ pSourceData = <<>>
    /\ pDestData = <<>>
    /\ events = <<>>
    /\ stored = <<>>
    /\ touched = {}
    /\ serialized \in BOOLEAN
    /\ writer = Idle
    /\ reader = Idle
    /\ written = {pObject[0]}

NextShared ==
    \/ \E src \in Values(pSubindex[0].size, pSubindex[0].bDataType) \cup
                  {Fill(pSubindex[0].size, 170)} : WriteBegin(src)
    \/ \E i \in Offsets(pSubindex[0].size) : WriteCopy(i)
    \/ WriteEnd
    \/ \E b \in FillBytes : ReadBegin(b)
    \/ \E j \in Offsets(pSubindex[0].size) : ReadCopy(j)
    \/ ReadEnd

SpecShared == InitShared /\ [][NextShared]_vars

----------------------------------------------------------------------------
(* Vocabulary of the properties *)

\* the last call named an index and a subindex that exist
Resolved == call.wIndex \in PresentIndexes /\ call.bSubindex \in DOMAIN pSubindex

\* the descriptor and the storage the last call named
Entry == pSubindex[call.bSubindex]
Storage == pObject[call.bSubindex]

WriteOnly(bAccessType) == bAccessType \in {WO, WO + TO_BE_SAVE}
ReadOnly(bAccessType) == bAccessType \in {RO, RO + TO_BE_SAVE}

\* the last call was a write / a read of an existing entry
WriteDone == call.op = "setODentry" /\ Resolved
ReadDone == call.op = "getODentry" /\ Resolved

\* the step calls the entry the previous call named
SameEntry == call'.wIndex = call.wIndex /\ call'.bSubindex = call.bSubindex

\* positions of a hook in a log
Positions(log, hook) == {i \in DOMAIN log : log[i].hook = hook}

Reversed(buf) == [i \in 1..Len(buf) |-> buf[Len(buf) + 1 - i]]

\* hooks the last call invoked, by name
Hooks == [i \in DOMAIN events |-> events[i].hook]

----------------------------------------------------------------------------
(* C1: a read with check_access of an existing entry returns               *)
(* OD_READ_NOT_ALLOWED when the entry is write-only and is not refused for *)
(* access reasons when the entry is not write-only.                        *)
C1_ReadAccessChecked ==
    (ReadDone /\ call.checkAccess) =>
        ((errorCode = "OD_READ_NOT_ALLOWED") <=> WriteOnly(Entry.bAccessType))

(* C2: a write with check_access to an entry whose permission is read-only, *)
(* with or without the persist flag, returns OD_WRITE_NOT_ALLOWED, leaves   *)
(* the storage unchanged and invokes neither callback nor persistence.      *)
C2_ReadOnlyWriteRefused ==
    [][(WriteDone' /\ call'.checkAccess /\ ReadOnly(Entry'.bAccessType)) =>
           /\ errorCode' = "OD_WRITE_NOT_ALLOWED"
           /\ pObject' = pObject
           /\ events' = <<>>]_vars

(* C3: every call accesses the storage of the entry it names only at       *)
(* offsets in [0, size).                                                   *)
C3_StorageBounds ==
    touched \subseteq (IF Resolved THEN 0..(Entry.size - 1) ELSE {})

(* C4: a write with given_size = 0 that returns success on a non-string    *)
(* entry leaves in the storage the declared-size value of the source.      *)
C4_ZeroSizeWritesDeclaredSize ==
    (WriteDone /\ call.size = 0 /\ errorCode = "OD_SUCCESSFUL"
        /\ Entry.bDataType # visible_string) =>
        Storage = pSourceData

(* C5: a permitted write to an existing entry is refused with              *)
(* OD_LENGTH_DATA_INVALID exactly when given_size is neither 0, nor the    *)
(* declared size, nor a shorter size of a visible_string; a refused write  *)
(* reports the declared size and changes neither storage nor source, and   *)
(* invokes nothing; an accepted one reaches the validator.                 *)
C5_SizeAcceptance ==
    [][(WriteDone' /\ ~(call'.checkAccess /\ ReadOnly(Entry'.bAccessType))) =>
           LET given == call'.size
               declared == Entry'.size
               fits == \/ given = 0
                       \/ given = declared
                       \/ (Entry'.bDataType = visible_string /\ given < declared)
           IN  /\ (errorCode' = "OD_LENGTH_DATA_INVALID") <=> ~fits
               /\ ~fits => /\ pExpectedSize' = declared
                           /\ pObject' = pObject
                           /\ pSourceData' = call'.data
                           /\ events' = <<>>
               /\ fits => (events' # <<>> /\ events'[1].hook = "valueRangeTest")]_vars

\* a scalar write of a shorter size was refused and reported the declared size
C5_Witness ==
    /\ WriteDone
    /\ Entry.bDataType = uns32
    /\ call.size = 1
    /\ errorCode = "OD_LENGTH_DATA_INVALID"
    /\ pExpectedSize = 4
    /\ pSourceData = call.data

(* C6: after a successful write of a string of n non-zero bytes, n below   *)
(* the declared size, a read of the same entry into a buffer of at least   *)
(* the declared size returns success, reports n, yields the n bytes and    *)
(* leaves a zero byte at offset n of the destination.                      *)
C6_ShortStringTerminated ==
    [][(/\ WriteDone /\ errorCode = "OD_SUCCESSFUL"
        /\ Entry.bDataType = visible_string
        /\ call.size > 0 /\ call.size < Entry.size
        /\ \A i \in 1..call.size : call.data[i] # 0
        /\ ReadDone' /\ SameEntry /\ ~call'.checkAccess
        /\ call'.size >= Entry.size) =>
           /\ errorCode' = "OD_SUCCESSFUL"
           /\ pExpectedSize' = call.size
           /\ \A i \in 1..call.size : pDestData'[i] = call.data[i]
           /\ pDestData'[call.size + 1] = 0]_vars

C8_CallbackAfterCopy ==
    [][(/\ WriteDone'
        /\ events' # <<>>
        /\ events'[1] = Invoked("valueRangeTest", "OD_SUCCESSFUL")
        /\ CallbackList[call'.bSubindex] # NULL) =>
           LET cb == Positions(events', "Callback")
               cp == Positions(events', "memcpy")
               st == Positions(events', "storeODSubIndex")
           IN  /\ Cardinality(cb) = 1
               /\ Cardinality(cp) = 1
               /\ \A i \in cb : /\ \A j \in cp : j < i
                                /\ \A k \in st : i < k
                                /\ events'[i].code # "OD_SUCCESSFUL" =>
                                       errorCode' = events'[i].code
               /\ \A i \in 1..call'.size :
                      pObject'[call'.bSubindex][i] = pSourceData'[i]]_vars

\* the callback failed after the copy: its code is returned, the value is stored
C8_Witness ==
    /\ WriteDone
    /\ errorCode = "SDOABT_GENERAL_ERROR"
    /\ Hooks = <<"valueRangeTest", "memcpy", "Callback">>
    /\ call.size = 4
    /\ call.data = <<1, 2, 3, 4>>
    /\ Storage = pSourceData

(* C9: when the validator returns a non-success code the write returns     *)
(* that code, storage and size parameter are as before, neither callback   *)
(* nor persistence is invoked, and the source buffer is as passed or       *)
(* byte-reversed.                                                          *)
C9_ValidatorVeto ==
    [][(/\ WriteDone'
        /\ events' # <<>>
        /\ events'[1].hook = "valueRangeTest"
        /\ events'[1].code # "OD_SUCCESSFUL") =>
           /\ errorCode' = events'[1].code
           /\ pObject' = pObject
           /\ CallbackList' = CallbackList
           /\ pExpectedSize' = call'.size
           /\ Len(events') = 1
           /\ pSourceData' \in {call'.data, Reversed(call'.data)}]_vars

\* a veto on a subindex with a callback, after the source was inverted
C9_Witness ==
    /\ WriteDone /\ bigEndian
    /\ errorCode = "OD_VALUE_TOO_HIGH"
    /\ CallbackList[call.bSubindex] # NULL
    /\ call.data = <<1, 2, 3, 4>>
    /\ pSourceData = <<4, 3, 2, 1>>
    /\ pExpectedSize = 4

(* C10: a read of an existing entry with a capacity below the declared     *)
(* size, not refused by the access step of the specification, returns      *)
(* SDOABT_OUT_OF_MEMORY and reports the declared size; the next read of    *)
(* the entry with the reported capacity returns success.                   *)
C10_SizeDiscovery ==
    [][/\ (/\ ReadDone' /\ call'.size < Entry'.size
           /\ ~(call'.checkAccess /\ WriteOnly(Entry'.bAccessType))) =>
              /\ errorCode' = "SDOABT_OUT_OF_MEMORY"
              /\ pExpectedSize' = Entry'.size
       /\ (/\ ReadDone /\ errorCode = "SDOABT_OUT_OF_MEMORY"
           /\ ReadDone' /\ SameEntry
           /\ call'.checkAccess = call.checkAccess
           /\ call'.size = pExpectedSize) =>
              errorCode' = "OD_SUCCESSFUL"]_vars

(* C11: a write invokes the NVRAM store notifier once, with the index and  *)
(* the subindex written, when it returns OD_SUCCESSFUL on an entry whose   *)
(* access type has TO_BE_SAVE; a write of an entry without the flag, or a  *)
(* write that returns another code, the callback's included, never does.   *)
C11_PersistOnSuccess ==
    (call.op = "setODentry") =>
        LET persist == /\ Resolved
                       /\ errorCode = "OD_SUCCESSFUL"
                       /\ BitAnd(Entry.bAccessType, TO_BE_SAVE) # 0
        IN  /\ Len(stored) = Cardinality(Positions(events, "storeODSubIndex"))
            /\ persist => stored = << <<call.wIndex, call.bSubindex>> >>
            /\ ~persist => stored = <<>>

\* a write of a persistent entry went through its callback and was notified
C11_Witness ==
    /\ WriteDone
    /\ errorCode = "OD_SUCCESSFUL"
    /\ Entry.bAccessType = RW + TO_BE_SAVE
    /\ Hooks = <<"valueRangeTest", "memcpy", "Callback", "storeODSubIndex">>
    /\ stored = << <<8192, 0>> >>

(* C12: RegisterSetODentryCallBack returns the code of the resolver; when  *)
(* the index resolves, it has a slot array and the subindex is below the   *)
(* count, the slot of the subindex becomes the callback given and no other *)
(* slot changes, so that registering the same callback again changes       *)
(* nothing; in every other case no slot changes.                           *)
C12_RegisterFrame ==
    [][(call'.op = "RegisterSetODentryCallBack") =>
           LET stores == /\ call'.wIndex \in PresentIndexes
                         /\ CallbackList # NoCallbacks
                         /\ call'.bSubindex < bSubCount
               again == /\ call.op = "RegisterSetODentryCallBack"
                        /\ SameEntry
                        /\ call'.Callback = call.Callback
           IN  /\ errorCode' = (IF call'.wIndex \in PresentIndexes
                                THEN "OD_SUCCESSFUL" ELSE "OD_NO_SUCH_OBJECT")
               /\ stores => /\ DOMAIN CallbackList' = DOMAIN CallbackList
                             /\ CallbackList'[call'.bSubindex] = call'.Callback
                             /\ \A s \in DOMAIN CallbackList \ {call'.bSubindex} :
                                    CallbackList'[s] = CallbackList[s]
               /\ ~stores => CallbackList' = CallbackList
               /\ again => CallbackList' = CallbackList]_vars

\* a registration on subindex 1 stored its callback and kept the slot of subindex 0
C12_Witness ==
    /\ call.op = "RegisterSetODentryCallBack"
    /\ errorCode = "OD_SUCCESSFUL"
    /\ call.bSubindex = 1
    /\ call.Callback = "cb2"
    /\ CallbackList # NoCallbacks
    /\ CallbackList[0] = "cb1"
    /\ CallbackList[1] = "cb2"

(* C13: when the callers serialize the calls, every read that returns      *)
(* OD_SUCCESSFUL gives a value whose copy into the storage was completed;  *)
(* when they do not, a read that ran during a write can return             *)
(* OD_SUCCESSFUL with bytes that are neither the old nor the new value     *)
(* (the state C13_TornRead, which is reached).                             *)
C13_SerializedReadsWhole ==
    (serialized /\ reader.pc = "returned" /\ reader.errorCode = "OD_SUCCESSFUL") =>
        reader.value \in written

\* no serialization: the first write of the entry is in progress and a read
\* returned OD_SUCCESSFUL with a value that is neither the old nor the new one
C13_TornRead ==
    /\ ~serialized
    /\ writer.pc = "copy"
    /\ written = {Zeros(pSubindex[0].size)}
    /\ reader.pc = "returned"
    /\ reader.errorCode = "OD_SUCCESSFUL"
    /\ reader.value \notin {Zeros(pSubindex[0].size), writer.value}
    /\ \A i \in DOMAIN reader.value : reader.value[i] \in {0, writer.value[i]}

(* C14: a read changes the storage of no entry, whatever the entry, the    *)
(* content, the capacity given and the code returned; the '\0' that the    *)
(* visible_string branch stores through its scan pointer when the length   *)
(* copied is below the declared size lands on a byte that is zero already. *)
C14_ReadKeepsStorage ==
    [][(call'.op = "getODentry") => pObject' = pObject]_vars

\* a read of a string shorter than its entry, which stores the '\0'
C14_Witness ==
    /\ ReadDone
    /\ Entry.bDataType = visible_string
    /\ errorCode = "OD_SUCCESSFUL"
    /\ pExpectedSize > 0
    /\ pExpectedSize < Entry.size
    /\ Storage[1] # 0
    /\ Storage[pExpectedSize + 1] = 0

====
